---- MODULE Spec2Model ----
(***************************************************************************)
(* A model of generate_icons.py: the icon renderer create_wifi_icon, the   *)
(* batch driver (generate_icon_set, generate_app_icons, main) and the      *)
(* start of the process (module imports and the __main__ guard).           *)
(*                                                                         *)
(* Coordinates that the code computes in floating point (0.4, 0.3 and 0.2  *)
(* times the pixel size, divided by 3 or 2) are kept exact, as integers in *)
(* units of 1/60 pixel.                                                    *)
(***************************************************************************)
EXTENDS Integers, Sequences, FiniteSets, TLC

VARIABLES
    pc,            \* position of the process in the script
    pilAvailable,  \* whether "import PIL" succeeds in this environment
    args,          \* the parsed command line (argparse namespace)
    dirExists,     \* whether the output directory exists
    fs,            \* the files of the output directory: path -> content
    out,           \* lines printed on standard output by the current process
    exitCode,      \* exit status of the current process, -1 while it runs
    nameIdx,       \* main: index in statuses.items()
    sizeIdx,       \* generate_icon_set / generate_app_icons: index in sizes
    makedirsCalls, \* number of os.makedirs calls of the current process
    written,       \* paths saved by the current process, in order
    runs,          \* number of processes started so far
    startFs,       \* fs when the current process started
    startDir,      \* dirExists when the current process started
    prevArgs,      \* args of the previous process
    req,           \* a direct call create_wifi_icon(size, status, scale)
    image,         \* the value that call returned
    pending,       \* any-order run: iterations not yet executed
    batch          \* any-order run: the iterations that are executed

vars == <<pc, pilAvailable, args, dirExists, fs, out, exitCode, nameIdx, sizeIdx,
          makedirsCalls, written, runs, startFs, startDir, prevArgs, req, image,
          pending, batch>>

(***************************************************************************)
(* Bounds                                                                  *)
(***************************************************************************)
MaxRuns == 2
MaxSize == 24
MaxBatch == 2

(***************************************************************************)
(* create_wifi_icon                                                        *)
(***************************************************************************)
Unit == 60

Black == <<0, 0, 0, 255>>
Gray == <<128, 128, 128, 255>>
Red == <<255, 0, 0, 255>>
Blue == <<0, 100, 255, 255>>
Transparent == <<0, 0, 0, 0>>

Max(a, b) == IF a >= b THEN a ELSE b

\* Mutant: the scale is not applied
actual_size_unscaled(size, scale) == size

actual_size(size, scale) == size * scale

color(status) ==
    CASE status = "connected" -> Black
      [] status = "disconnected" -> Gray
      [] status = "error" -> Red
      [] status = "connecting" -> Blue
      [] OTHER -> Gray

\* Mutant: the connecting branch copies the arc count of connected
arc_count_connecting3(status) ==
    CASE status = "connected" -> 3
      [] status = "disconnected" -> 1
      [] status = "error" -> 3
      [] status = "connecting" -> 3
      [] OTHER -> 1

arc_count(status) ==
    CASE status = "connected" -> 3
      [] status = "disconnected" -> 1
      [] status = "error" -> 3
      [] status = "connecting" -> 2
      [] OTHER -> 1

line_width(actual) == Max(1, actual \div 16)

\* radius * i / 3 with radius = actual * 0.4, in 1/60 pixel
arc_radius(actual, i) == (actual * 24 * i) \div 3

draw_arc(actual, status, i) ==
    LET cx == (actual \div 2) * Unit
        cy == (actual \div 2) * Unit
        r == arc_radius(actual, i)
    IN  [kind |-> "arc",
         box |-> <<cx - r, cy - r, cx + r, cy + r>>,
         from |-> 225, to |-> 315,
         fill |-> color(status), width |-> line_width(actual)]

draws_dot(status) == status # "disabled"

draw_dot(actual, status) ==
    LET cx == (actual \div 2) * Unit
        cy == (actual \div 2) * Unit
        r == Max(2, actual \div 20) * Unit
    IN  [kind |-> "ellipse",
         box |-> <<cx - r, cy - r, cx + r, cy + r>>,
         from |-> 0, to |-> 360,
         fill |-> color(status), width |-> 0]

\* Mutant: the X is drawn for every status that is not connected
draws_error_mark_not_connected(status) == status # "connected"

draws_error_mark(status) == status = "error"

\* the two segments of the X; error_size / 2 = actual * 0.3 / 2 = 9 * actual / 60
draw_error_mark(actual) ==
    LET ex == (actual \div 2) * Unit + actual * 12
        ey == (actual \div 2) * Unit - actual * 12
        h == actual * 9
    IN  << [kind |-> "line", box |-> <<ex - h, ey - h, ex + h, ey + h>>,
            from |-> 0, to |-> 0, fill |-> Red, width |-> line_width(actual)],
           [kind |-> "line", box |-> <<ex + h, ey - h, ex - h, ey + h>>,
            from |-> 0, to |-> 0, fill |-> Red, width |-> line_width(actual)] >>

new_image(w, h) == [width |-> w, height |-> h, background |-> Transparent, ops |-> <<>>]

create_wifi_icon(size, status, scale) ==
    LET actual == actual_size(size, scale)
        canvas == new_image(actual, actual)
        arcs == [i \in 1..arc_count(status) |-> draw_arc(actual, status, i)]
        dot == IF draws_dot(status) THEN <<draw_dot(actual, status)>> ELSE <<>>
        mark == IF draws_error_mark(status) THEN draw_error_mark(actual) ELSE <<>>
    IN  [canvas EXCEPT !.ops = arcs \o dot \o mark]

(***************************************************************************)
(* The file system and standard output                                     *)
(***************************************************************************)
Output == "./icons"

os_path_join(base, file) == base \o "/" \o file

StaleContent == [width |-> 1, height |-> 1, background |-> Transparent, ops |-> <<>>]

NoFiles == [p \in {} |-> StaleContent]

StaleFiles == [p \in {os_path_join(Output, "notes.txt"),
                      os_path_join(Output, "wifi-error-16.png")} |-> StaleContent]

\* the file system after image.save(path): the file is created or replaced
save(files, path, img) == [p \in DOMAIN files \cup {path} |-> IF p = path THEN img ELSE files[p]]

\* Mutant: exist_ok is left at its default, False
makedirs_raises_if_exists(exists) == exists

\* os.makedirs(path, exist_ok=True) raises only when exist_ok is false and path exists
makedirs_raises(exists) == FALSE

\* Mutant: the directory is not created
makedirs_missing(exists) == exists

\* whether the directory exists once os.makedirs has returned
makedirs(exists) == TRUE

(***************************************************************************)
(* generate_icon_set, generate_app_icons and the tables of main            *)
(***************************************************************************)
status_bar_sizes == <<16, 18, 20, 22>>

statuses == << <<"wifi-connected", "connected">>,
               <<"wifi-disconnected", "disconnected">>,
               <<"wifi-error", "error">>,
               <<"wifi-connecting", "connecting">> >>

app_icon_sizes == <<16, 32, 128, 256, 512>>

\* Mutant: the scale suffix is left out of the file name
icon_file_no_scale(icon_name, size, scale) == icon_name \o "-" \o ToString(size) \o ".png"

\* f"{icon_name}-{size}.png" and f"{icon_name}-{size}@{scale}x.png"
icon_file(icon_name, size, scale) ==
    IF scale = 1
    THEN icon_name \o "-" \o ToString(size) \o ".png"
    ELSE icon_name \o "-" \o ToString(size) \o "@" \o ToString(scale) \o "x.png"

\* Mutant: 3x only up to 16 pixels
needs_3x_upto16(size) == size <= 16

needs_3x(size) == size <= 32

\* Mutant: the wrong flag is tested
generates_status_bar_swapped(a) == ~a.status_bar_only

generates_status_bar(a) == ~a.app_icon_only

\* Mutant: both flags together fall back to generating everything
generates_app_icons_fallback(a) == ~a.status_bar_only \/ a.app_icon_only

generates_app_icons(a) == ~a.status_bar_only

NoArgs == [output |-> Output, status_bar_only |-> FALSE, app_icon_only |-> FALSE]

Args == [output : {Output}, status_bar_only : BOOLEAN, app_icon_only : BOOLEAN]

NoRequest == [size |-> 0, status |-> "", scale |-> 0]

NoImage == new_image(0, 0)

(***************************************************************************)
(* The process: imports, __main__ guard, main                              *)
(***************************************************************************)
Init ==
    /\ pc = "boot"
    /\ pilAvailable \in BOOLEAN
    /\ args = NoArgs
    /\ \/ dirExists = FALSE /\ fs = NoFiles
       \/ dirExists = TRUE /\ fs \in {NoFiles, StaleFiles}
    /\ out = <<>>
    /\ exitCode = -1
    /\ nameIdx = 0
    /\ sizeIdx = 0
    /\ makedirsCalls = 0
    /\ written = <<>>
    /\ runs = 1
    /\ startFs = fs
    /\ startDir = dirExists
    /\ prevArgs = NoArgs
    /\ req = NoRequest
    /\ image = NoImage
    /\ pending = {}
    /\ batch = {}

Driver == <<args, dirExists, fs, nameIdx, sizeIdx, makedirsCalls, written>>
History == <<runs, startFs, startDir, prevArgs>>
Other == <<pilAvailable, req, image, pending, batch>>

DiagnosticLines == <<"error: the Pillow library is required", "run: pip install Pillow">>

\* an exception nothing catches: traceback on standard error, exit status 1
Raise ==
    /\ pc' = "crashed"
    /\ exitCode' = 1

\* lines 7-10: "from PIL import Image, ImageDraw" runs when the module is loaded
ImportModules ==
    /\ pc = "boot"
    /\ IF pilAvailable
       THEN pc' = "guard" /\ exitCode' = exitCode
       ELSE Raise
    /\ UNCHANGED <<out, Driver, History, Other>>

\* lines 168-174
MainGuard ==
    /\ pc = "guard"
    /\ IF pilAvailable
       THEN pc' = "parse" /\ out' = out /\ exitCode' = exitCode
       ELSE /\ out' = out \o DiagnosticLines
            /\ pc' = "exited"
            /\ exitCode' = 1
    /\ UNCHANGED <<Driver, History, Other>>

\* lines 134-139
ParseArgs ==
    /\ pc = "parse"
    /\ \E a \in Args : args' = a
    /\ pc' = "makedirs"
    /\ UNCHANGED <<out, exitCode, dirExists, fs, nameIdx, sizeIdx, makedirsCalls,
                   written, History, Other>>

\* line 142
Makedirs ==
    /\ pc = "makedirs"
    /\ makedirsCalls' = makedirsCalls + 1
    /\ IF makedirs_raises(dirExists)
       THEN Raise /\ dirExists' = dirExists
       ELSE /\ dirExists' = makedirs(dirExists)
            /\ pc' = "status_bar"
            /\ exitCode' = exitCode
    /\ UNCHANGED <<out, args, fs, nameIdx, sizeIdx, written, History, Other>>

\* lines 144-148
StatusBarBranch ==
    /\ pc = "status_bar"
    /\ IF generates_status_bar(args)
       THEN /\ out' = Append(out, "generating status bar icons")
            /\ nameIdx' = 1
            /\ pc' = "next_status"
       ELSE /\ out' = out
            /\ nameIdx' = nameIdx
            /\ pc' = "app_icons"
    /\ UNCHANGED <<exitCode, args, dirExists, fs, sizeIdx, makedirsCalls, written,
                   History, Other>>

\* lines 158-160: one step of "for icon_name, status in statuses.items()"
NextStatus ==
    /\ pc = "next_status"
    /\ IF nameIdx <= Len(statuses)
       THEN /\ out' = Append(out, "generating " \o statuses[nameIdx][1])
            /\ sizeIdx' = 1
            /\ pc' = "icon_1x"
       ELSE /\ out' = out
            /\ sizeIdx' = sizeIdx
            /\ pc' = "app_icons"
    /\ UNCHANGED <<exitCode, args, dirExists, fs, nameIdx, makedirsCalls, written,
                   History, Other>>

\* icon.save(os.path.join(base_path, file)): FileNotFoundError without the directory
SaveIcon(file, img, next) ==
    LET path == os_path_join(args.output, file)
    IN  IF dirExists
        THEN /\ fs' = save(fs, path, img)
             /\ written' = Append(written, path)
             /\ pc' = next
             /\ exitCode' = exitCode
        ELSE /\ Raise
             /\ UNCHANGED <<fs, written>>

\* after the last scale of a size: the next size, or return to main's loop
IconSetAdvance ==
    IF sizeIdx < Len(status_bar_sizes)
    THEN sizeIdx' = sizeIdx + 1 /\ nameIdx' = nameIdx
    ELSE sizeIdx' = sizeIdx /\ nameIdx' = nameIdx + 1

IconSetNext == IF sizeIdx < Len(status_bar_sizes) THEN "icon_1x" ELSE "next_status"

\* lines 103-104
SaveIcon1x ==
    /\ pc = "icon_1x"
    /\ LET size == status_bar_sizes[sizeIdx]
           icon_name == statuses[nameIdx][1]
           status == statuses[nameIdx][2]
       IN  SaveIcon(icon_file(icon_name, size, 1), create_wifi_icon(size, status, 1),
                    "icon_2x")
    /\ UNCHANGED <<out, args, dirExists, nameIdx, sizeIdx, makedirsCalls, History, Other>>

\* lines 107-111
SaveIcon2x ==
    /\ pc = "icon_2x"
    /\ LET size == status_bar_sizes[sizeIdx]
           icon_name == statuses[nameIdx][1]
           status == statuses[nameIdx][2]
       IN  /\ SaveIcon(icon_file(icon_name, size, 2), create_wifi_icon(size, status, 2),
                       IF needs_3x(size) THEN "icon_3x" ELSE IconSetNext)
           /\ IF needs_3x(size) \/ ~dirExists
              THEN UNCHANGED <<nameIdx, sizeIdx>>
              ELSE IconSetAdvance
    /\ UNCHANGED <<out, args, dirExists, makedirsCalls, History, Other>>

\* lines 112-113
SaveIcon3x ==
    /\ pc = "icon_3x"
    /\ LET size == status_bar_sizes[sizeIdx]
           icon_name == statuses[nameIdx][1]
           status == statuses[nameIdx][2]
       IN  SaveIcon(icon_file(icon_name, size, 3), create_wifi_icon(size, status, 3),
                    IconSetNext)
    /\ IF dirExists THEN IconSetAdvance ELSE UNCHANGED <<nameIdx, sizeIdx>>
    /\ UNCHANGED <<out, args, dirExists, makedirsCalls, History, Other>>

\* lines 162-164, 122
AppIconsBranch ==
    /\ pc = "app_icons"
    /\ IF generates_app_icons(args)
       THEN /\ out' = Append(out, "generating app icons")
            /\ sizeIdx' = 1
            /\ pc' = "app_1x"
       ELSE /\ out' = out
            /\ sizeIdx' = sizeIdx
            /\ pc' = "finish"
    /\ UNCHANGED <<exitCode, args, dirExists, fs, nameIdx, makedirsCalls, written,
                   History, Other>>

\* lines 126-127
SaveAppIcon1x ==
    /\ pc = "app_1x"
    /\ LET size == app_icon_sizes[sizeIdx]
       IN  SaveIcon(icon_file("app-icon", size, 1), create_wifi_icon(size, "connected", 1),
                    "app_2x")
    /\ UNCHANGED <<out, args, dirExists, nameIdx, sizeIdx, makedirsCalls, History, Other>>

\* lines 130-131 and the end of "for size in app_icon_sizes"
SaveAppIcon2x ==
    /\ pc = "app_2x"
    /\ LET size == app_icon_sizes[sizeIdx]
       IN  SaveIcon(icon_file("app-icon", size, 2), create_wifi_icon(size, "connected", 2),
                    IF sizeIdx < Len(app_icon_sizes) THEN "app_1x" ELSE "finish")
    /\ sizeIdx' = IF dirExists /\ sizeIdx < Len(app_icon_sizes) THEN sizeIdx + 1 ELSE sizeIdx
    /\ UNCHANGED <<out, args, dirExists, nameIdx, makedirsCalls, History, Other>>

\* line 166 and the normal end of the process
Finish ==
    /\ pc = "finish"
    /\ out' = Append(out, "done, output directory: " \o args.output)
    /\ pc' = "done"
    /\ exitCode' = 0
    /\ UNCHANGED <<Driver, History, Other>>

\* the script is started again on the directory the previous process left
RunAgain ==
    /\ pc = "done"
    /\ runs < MaxRuns
    /\ runs' = runs + 1
    /\ startFs' = fs
    /\ startDir' = dirExists
    /\ prevArgs' = args
    /\ pc' = "boot"
    /\ out' = <<>>
    /\ exitCode' = -1
    /\ args' = NoArgs
    /\ nameIdx' = 0
    /\ sizeIdx' = 0
    /\ makedirsCalls' = 0
    /\ written' = <<>>
    /\ UNCHANGED <<dirExists, fs, Other>>

Next ==
    \/ ImportModules
    \/ MainGuard
    \/ ParseArgs
    \/ Makedirs
    \/ StatusBarBranch
    \/ NextStatus
    \/ SaveIcon1x
    \/ SaveIcon2x
    \/ SaveIcon3x
    \/ AppIconsBranch
    \/ SaveAppIcon1x
    \/ SaveAppIcon2x
    \/ Finish
    \/ RunAgain

Spec == Init /\ [][Next]_vars

(***************************************************************************)
(* create_wifi_icon called directly, on any request of the contract        *)
(***************************************************************************)
Statuses == {"connected", "disconnected", "error", "connecting", "disabled", "unknown"}

Scales == {1, 2, 3}

Range(f) == {f[i] : i \in DOMAIN f}

Sizes == (1..MaxSize) \cup Range(status_bar_sizes) \cup Range(app_icon_sizes)

Idle ==
    /\ pilAvailable = TRUE
    /\ args = NoArgs
    /\ out = <<>>
    /\ exitCode = -1
    /\ nameIdx = 0
    /\ sizeIdx = 0
    /\ makedirsCalls = 0
    /\ written = <<>>
    /\ runs = 1
    /\ prevArgs = NoArgs

InitRender ==
    /\ pc = "call"
    /\ req \in [size : Sizes, status : Statuses, scale : Scales]
    /\ image = NoImage
    /\ dirExists = FALSE
    /\ fs = NoFiles
    /\ startFs = fs
    /\ startDir = dirExists
    /\ pending = {}
    /\ batch = {}
    /\ Idle

\* lines 12-89
Render ==
    /\ pc = "call"
    /\ image' = create_wifi_icon(req.size, req.status, req.scale)
    /\ pc' = "returned"
    /\ UNCHANGED <<out, exitCode, Driver, History, pilAvailable, req, pending, batch>>

\* the module used either way: run as a script, or imported for create_wifi_icon
InitModule == Init \/ InitRender

NextModule == Next \/ Render

SpecRender == InitModule /\ [][NextModule]_vars

(***************************************************************************)
(* The iterations of one batch, and a run that executes some of them in    *)
(* any order                                                               *)
(***************************************************************************)
RECURSIVE Flatten(_)
Flatten(ss) == IF ss = <<>> THEN <<>> ELSE Head(ss) \o Flatten(Tail(ss))

Iteration(base_path, file, size, status, scale) ==
    [path |-> os_path_join(base_path, file), size |-> size, status |-> status,
     scale |-> scale]

\* lines 101-113, as the list of its render-and-write steps
generate_icon_set(base_path, icon_name, status, sizes) ==
    Flatten([i \in 1..Len(sizes) |->
        LET size == sizes[i]
            scales == IF needs_3x(size) THEN <<1, 2, 3>> ELSE <<1, 2>>
        IN  [j \in 1..Len(scales) |->
                Iteration(base_path, icon_file(icon_name, size, scales[j]), size, status,
                          scales[j])]])

\* lines 122-131, as the list of its render-and-write steps
generate_app_icons(base_path) ==
    Flatten([i \in 1..Len(app_icon_sizes) |->
        LET size == app_icon_sizes[i]
        IN  [j \in 1..2 |->
                Iteration(base_path, icon_file("app-icon", size, j), size, "connected", j)]])

\* lines 144-164, as the list of its render-and-write steps
main_iterations(a) ==
    (IF generates_status_bar(a)
     THEN Flatten([n \in 1..Len(statuses) |->
              generate_icon_set(a.output, statuses[n][1], statuses[n][2], status_bar_sizes)])
     ELSE <<>>)
    \o (IF generates_app_icons(a) THEN generate_app_icons(a.output) ELSE <<>>)

\* the files after the iterations its executed one after the other
RECURSIVE run_in_order(_, _)
run_in_order(its, files) ==
    IF its = <<>>
    THEN files
    ELSE run_in_order(Tail(its),
                      save(files, Head(its).path,
                           create_wifi_icon(Head(its).size, Head(its).status, Head(its).scale)))

Batches(n) == {Range(f) : f \in [1..MaxBatch -> 1..n]}

InitAnyOrder ==
    /\ pc = "any_order"
    /\ pilAvailable = TRUE
    /\ args \in Args
    /\ dirExists = TRUE
    /\ fs \in {NoFiles, StaleFiles}
    /\ startFs = fs
    /\ startDir = dirExists
    /\ \E its \in {main_iterations(args)} :
           batch \in {{[index |-> i, step |-> its[i]] : i \in b} : b \in Batches(Len(its))}
    /\ pending = batch
    /\ out = <<>>
    /\ exitCode = -1
    /\ nameIdx = 0
    /\ sizeIdx = 0
    /\ makedirsCalls = 1
    /\ written = <<>>
    /\ runs = 1
    /\ prevArgs = NoArgs
    /\ req = NoRequest
    /\ image = NoImage

\* one render-and-write step of the batch, whichever is taken next
RunIteration ==
    /\ pc = "any_order"
    /\ \E it \in pending :
        /\ fs' = save(fs, it.step.path,
                      create_wifi_icon(it.step.size, it.step.status, it.step.scale))
        /\ written' = Append(written, it.step.path)
        /\ pending' = pending \ {it}
    /\ UNCHANGED <<pc, out, exitCode, args, dirExists, nameIdx, sizeIdx, makedirsCalls,
                   History, pilAvailable, req, image, batch>>

SpecAnyOrder == InitAnyOrder /\ [][RunIteration]_vars

\* the steps of the chosen iterations in the order of the code
RECURSIVE InCodeOrder(_)
InCodeOrder(chosen) ==
    IF chosen = {}
    THEN <<>>
    ELSE LET first == CHOOSE it \in chosen : \A other \in chosen : it.index <= other.index
         IN  <<first.step>> \o InCodeOrder(chosen \ {first})

\* Sanity: the sequential process saves the iterations of main_iterations, in order
WrittenFollowsIterations ==
    pc = "done" =>
        /\ Len(written) = Len(main_iterations(args))
        /\ \A i \in 1..Len(written) : written[i] = main_iterations(args)[i].path
        /\ fs = run_in_order(main_iterations(args), startFs)

(***************************************************************************)
(* Properties                                                              *)
(***************************************************************************)
StartsWith(str, prefix) ==
    Len(str) >= Len(prefix) /\ SubSeq(str, 1, Len(prefix)) = prefix

FileName(path) == SubSeq(path, Len(Output) + 2, Len(path))

ExpectedStatusBarFiles ==
    {Output \o "/" \o name \o "-" \o ToString(size) \o suffix \o ".png" :
        name \in {"wifi-connected", "wifi-disconnected", "wifi-error", "wifi-connecting"},
        size \in {16, 18, 20, 22},
        suffix \in {"", "@2x", "@3x"}}

ExpectedAppIconFiles ==
    {Output \o "/app-icon-" \o ToString(size) \o suffix \o ".png" :
        size \in {16, 32, 128, 256, 512},
        suffix \in {"", "@2x"}}

DefaultFlags == ~args.status_bar_only /\ ~args.app_icon_only

\* C1: a run with neither flag set that starts from an empty output directory
\* ends with exactly 58 files in it: the 48 status-bar files and the 10
\* app-icon files, each a non-empty bitmap, and no other file.
DefaultRunLeaves58Files ==
    (pc = "done" /\ DefaultFlags /\ startFs = NoFiles) =>
        /\ Cardinality(ExpectedStatusBarFiles) = 48
        /\ Cardinality(ExpectedAppIconFiles) = 10
        /\ DOMAIN fs = ExpectedStatusBarFiles \cup ExpectedAppIconFiles
        /\ Cardinality(DOMAIN fs) = 58
        /\ \A p \in DOMAIN fs : fs[p].width > 0 /\ fs[p].height > 0

DefaultRunDone ==
    /\ pc = "done"
    /\ DefaultFlags
    /\ startFs = NoFiles
    /\ Cardinality(DOMAIN fs) = 58

\* C2: with only --status-bar-only a run writes exactly the 48 status-bar
\* files and none named app-icon-...; with only --app-icon-only it writes
\* exactly the 10 app-icon files and none named wifi-...
OnlyFlagSelectsOneSet ==
    /\ (args.status_bar_only /\ ~args.app_icon_only) =>
          /\ Range(written) \subseteq ExpectedStatusBarFiles
          /\ \A i \in 1..Len(written) : ~StartsWith(FileName(written[i]), "app-icon-")
          /\ pc = "done" => Range(written) = ExpectedStatusBarFiles /\ Len(written) = 48
    /\ (args.app_icon_only /\ ~args.status_bar_only) =>
          /\ Range(written) \subseteq ExpectedAppIconFiles
          /\ \A i \in 1..Len(written) : ~StartsWith(FileName(written[i]), "wifi-")
          /\ pc = "done" => Range(written) = ExpectedAppIconFiles /\ Len(written) = 10

OnlyFlagRunsDone ==
    /\ pc = "done"
    /\ runs = 2
    /\ prevArgs.app_icon_only /\ ~prevArgs.status_bar_only
    /\ args.status_bar_only /\ ~args.app_icon_only
    /\ Len(written) = 48

\* C3: when the imaging library is unavailable the process does no work (no
\* directory is created, nothing is written) and ends with exit code 1
\* having printed the diagnostic and the remediation hint.
MissingLibraryIsDiagnosed ==
    ~pilAvailable =>
        /\ makedirsCalls = 0 /\ written = <<>> /\ dirExists = startDir /\ fs = startFs
        /\ pc \in {"boot", "guard", "exited", "crashed"}
        /\ pc \in {"exited", "crashed"} => exitCode = 1 /\ out = DiagnosticLines

\* C4: with both flags set nothing is generated: the run writes no file and
\* still ends normally, with exit code 0 and the directory's files untouched.
BothFlagsWriteNothing ==
    (args.status_bar_only /\ args.app_icon_only) =>
        /\ written = <<>>
        /\ fs = startFs
        /\ pc # "crashed"
        /\ pc = "done" => exitCode = 0

BothFlagsRunDone ==
    /\ pc = "done"
    /\ args.status_bar_only /\ args.app_icon_only
    /\ written = <<>>
    /\ dirExists

\* C5: for every status, every base size > 0 and every scale in {1, 2, 3}
\* the bitmap create_wifi_icon returns is (size * scale) pixels wide and high;
\* so is every file the batch driver has written for a (size, scale).
BitmapIsSizeTimesScale ==
    /\ pc = "returned" =>
          /\ image.width = req.size * req.scale
          /\ image.height = req.size * req.scale
    /\ \A name \in {"wifi-connected", "wifi-disconnected", "wifi-error", "wifi-connecting",
                     "app-icon"} :
       \A size \in {16, 18, 20, 22, 32, 128, 256, 512} :
       \A scale \in {1, 2, 3} :
          LET suffix == IF scale = 1 THEN "" ELSE "@" \o ToString(scale) \o "x"
              path == Output \o "/" \o name \o "-" \o ToString(size) \o suffix \o ".png"
          IN  path \in Range(written) =>
                  fs[path].width = size * scale /\ fs[path].height = size * scale

BitmapRendered3x ==
    /\ pc = "returned"
    /\ req.size = 22 /\ req.scale = 3
    /\ image.width = 66 /\ image.height = 66

Arcs(img) == SelectSeq(img.ops, LAMBDA op : op.kind = "arc")

Lines(img) == SelectSeq(img.ops, LAMBDA op : op.kind = "line")

\* twice the radius of an arc, in 1/60 pixel: the width of its bounding box
Diameter(arc) == arc.box[3] - arc.box[1]

\* C6: the number of arcs drawn depends only on the status: 3 for connected,
\* 1 for disconnected, 3 for error, 2 for connecting and 1, in gray, for any
\* other value; arc i has radius (0.4 * actualSize) * i / 3, so the radii
\* strictly increase with the index.
ArcCountByStatus ==
    pc = "returned" =>
        LET arcs == Arcs(image)
            expected == CASE req.status = "connected" -> 3
                          [] req.status = "disconnected" -> 1
                          [] req.status = "error" -> 3
                          [] req.status = "connecting" -> 2
                          [] OTHER -> 1
        IN  /\ Len(arcs) = expected
            /\ \A i \in 1..Len(arcs) :
                  3 * 10 * Diameter(arcs[i]) = 2 * 60 * (4 * req.size * req.scale) * i
            /\ \A i \in 1..Len(arcs) : \A j \in 1..Len(arcs) :
                  i < j => Diameter(arcs[i]) < Diameter(arcs[j])
            /\ req.status \notin {"connected", "disconnected", "error", "connecting"} =>
                  \A i \in 1..Len(arcs) : arcs[i].fill = <<128, 128, 128, 255>>

ArcsOfConnecting ==
    /\ pc = "returned"
    /\ req.status = "connecting"
    /\ Len(Arcs(image)) = 2
    /\ Diameter(Arcs(image)[1]) < Diameter(Arcs(image)[2])

\* C7: the X overlay, two crossing red segments, is drawn if and only if the
\* status is error; for every other status, recognised or not, no segment is
\* drawn. Among the files a batch run writes, only the wifi-error files hold it.
ErrorMarkOnlyForError ==
    /\ pc = "returned" =>
          LET segs == Lines(image)
          IN  IF req.status = "error"
              THEN /\ Len(segs) = 2
                   /\ \A i \in 1..2 : segs[i].fill = <<255, 0, 0, 255>>
                   \* the two diagonals of one square
                   /\ segs[1].box[1] = segs[2].box[3] /\ segs[1].box[3] = segs[2].box[1]
                   /\ segs[1].box[2] = segs[2].box[2] /\ segs[1].box[4] = segs[2].box[4]
                   /\ segs[1].box[1] < segs[1].box[3] /\ segs[1].box[2] < segs[1].box[4]
              ELSE Len(segs) = 0
    /\ \A i \in 1..Len(written) :
          IF StartsWith(FileName(written[i]), "wifi-error-")
          THEN Len(Lines(fs[written[i]])) = 2
          ELSE Len(Lines(fs[written[i]])) = 0

ErrorMarkDrawn ==
    /\ pc = "returned"
    /\ req.status = "error"
    /\ Len(Lines(image)) = 2

SavePositions == {"icon_1x", "icon_2x", "icon_3x", "app_1x", "app_2x"}

AfterMakedirs == SavePositions \cup {"status_bar", "next_status", "app_icons", "finish", "done"}

\* C8: in every run, whatever the flags, os.makedirs is called exactly once
\* and before the first save: no render-and-write step is reached, and no
\* file has been written, while the output directory does not exist.
DirectoryCreatedOnceBeforeWrites ==
    /\ makedirsCalls <= 1
    /\ pc \in AfterMakedirs => makedirsCalls = 1 /\ dirExists
    /\ written # <<>> => makedirsCalls = 1 /\ dirExists
    \* no save fails for want of the directory: only the import can fail
    /\ pc = "crashed" => ~pilAvailable /\ makedirsCalls = 0

DirectoryCreatedThenWritten ==
    /\ ~startDir
    /\ dirExists
    /\ makedirsCalls = 1
    /\ pc = "icon_2x"
    /\ Len(written) = 1

\* C9: a second run with the same flags on the same output directory ends
\* without error, writes only paths that exist already, and leaves the same
\* paths with the same contents as the first run did.
SecondRunChangesNothing ==
    (runs >= 2 /\ args = prevArgs) =>
        /\ pc # "crashed"
        /\ Range(written) \subseteq DOMAIN startFs
        /\ \A i \in 1..Len(written) : fs[written[i]] = startFs[written[i]]
        /\ pc = "done" => exitCode = 0 /\ fs = startFs

SecondDefaultRunDone ==
    /\ runs = 2
    /\ pc = "done"
    /\ args = prevArgs
    /\ DefaultFlags
    /\ Len(written) = 58

\* C10: no two render-and-write iterations of a run write the same path, so
\* iterations executed in any order leave the same path -> bitmap mapping as
\* the same iterations executed in the order of the code.
AnyOrderSameFiles ==
    /\ \A i \in 1..Len(written) : \A j \in 1..Len(written) :
          i # j => written[i] # written[j]
    /\ pending = {} => fs = run_in_order(InCodeOrder(batch), startFs)

ReverseOrderDone ==
    /\ pending = {}
    /\ \E a \in batch : \E b \in batch :
          /\ a.index < b.index
          /\ written = <<b.step.path, a.step.path>>

====
